---- MODULE Spec2Model ----
(***************************************************************************)
(* BetSwirl action provider: one invocation of coinToss, dice, roulette or *)
(* getBet against a wallet provider, the casino contracts, the VRF fee API *)
(* and the subgraph indexer.  Every await of the code is one step.         *)
(***************************************************************************)
EXTENDS Integers, Sequences, FiniteSets, TLC

(***************************************************************************)
(* Bounds of the model.                                                    *)
(***************************************************************************)
\* longest time (ms) one indexer query may take beyond returning at once
MaxLatency == 30000
\* decimal precision of the chain's native currency in the model
NativeDecimals == 2
\* decimal precision of the listed ERC-20 tokens in the model
TokenDecimals == 1
\* largest VRF fee estimate the fee API answers with
MaxFee == 7
\* the two maximum bet amounts the casino contract answers with
LowMaxBetAmount == 50
HighMaxBetAmount == 5000
\* largest maximum bet count the casino contract answers with
MaxMaxBetCount == 1
\* largest bet id the indexer answers with
MaxBetId == 10
\* most bets the indexer answers a list query with
MaxPage == 2

(***************************************************************************)
(* Program constants.                                                      *)
(***************************************************************************)
\* const timeout = 60000
timeout == 60000
\* setTimeout(resolve, 1000)
SleepMs == 1000
\* betCount: 1 in coinToss, dice and roulette
ActionBetCount == 1
\* (vrfCost * 120n) / 100n
VrfMarginNum == 120
VrfMarginDen == 100

(***************************************************************************)
(* Strings are sequences of one-character strings where the code parses    *)
(* them, and sequences of parts where the code only builds them.           *)
(***************************************************************************)
Digits == <<"0", "1", "2", "3", "4", "5", "6", "7", "8", "9">>

IsDigit(c) == \E i \in 1..10 : Digits[i] = c

DigitVal(c) == (CHOOSE i \in 1..10 : Digits[i] = c) - 1

RECURSIVE DigitsToNat(_)
DigitsToNat(ds) ==
    IF ds = <<>> THEN 0
    ELSE DigitsToNat(SubSeq(ds, 1, Len(ds) - 1)) * 10 + DigitVal(ds[Len(ds)])

RECURSIVE Pow10(_)
Pow10(n) == IF n = 0 THEN 1 ELSE 10 * Pow10(n - 1)

\* String(n) of a non-negative integer: its decimal digits
RECURSIVE NatToString(_)
NatToString(n) ==
    IF n < 10 THEN <<Digits[n + 1]>>
    ELSE Append(NatToString(n \div 10), Digits[(n % 10) + 1])

\* viem parseUnits(value, decimals): /^(-?)([0-9]*)\.?([0-9]*)$/, split at the
\* dot, fraction rounded half up to `decimals` digits, then BigInt.
ParseUnitsBody(value) == IF value # <<>> /\ value[1] = "-" THEN Tail(value) ELSE value

ParseUnitsDots(s) == {i \in 1..Len(s) : s[i] = "."}

ParseUnitsValid(value) ==
    LET s == ParseUnitsBody(value) IN
    /\ Cardinality(ParseUnitsDots(s)) <= 1
    /\ \A i \in 1..Len(s) : s[i] = "." \/ IsDigit(s[i])

parseUnits(value, decimals) ==
    LET s        == ParseUnitsBody(value)
        negative == value # <<>> /\ value[1] = "-"
        dots     == ParseUnitsDots(s)
        dot      == IF dots = {} THEN 0 ELSE CHOOSE i \in dots : TRUE
        integer  == IF dot = 0 THEN s ELSE SubSeq(s, 1, dot - 1)
        fraction == IF dot = 0 THEN <<"0">> ELSE SubSeq(s, dot + 1, Len(s))
        scale    == Pow10(Len(fraction))
        rounded  == (2 * DigitsToNat(fraction) * Pow10(decimals) + scale) \div (2 * scale)
        mag      == DigitsToNat(integer) * Pow10(decimals) + rounded
    IN  IF negative THEN 0 - mag ELSE mag

(***************************************************************************)
(* Errors: a message is the sequence of the parts the code concatenates.   *)
(***************************************************************************)
\* `${error}` of an Error object
ErrorToString(msg) == <<"Error: ">> \o msg

NoChainIdMsg == <<"No chain ID">>
AmountMsg == <<"The bet amount must be greater than 0">>
InvalidDecimalMsg(value) == <<"Number \"">> \o value \o <<"\" is not a valid decimal number.">>
TimeoutMsg == <<"Timeout: Bet data retrieval exceeded 1 minute.">>
NotIndexedMsg(txHash) == <<"The bet hasn't been indexed in time, please retry later: ", txHash>>
IndexerErrorMsg(error) == <<"[", error.code, "] Error fetching bet: ", error.message>>
GetBetWrap(msg) == <<"An error occured while getting the bet: ">> \o ErrorToString(msg)
PlaceBetWrap(msg) == <<"An error occured while placing the bet: ">> \o ErrorToString(msg)
RequirementsWrap(msg) ==
    <<"An error occured while getting the bet requirements: ">> \o ErrorToString(msg)
VrfCostWrap(msg) ==
    <<"An error occured while getting the chainlink vrf cost: ">> \o ErrorToString(msg)
VrfApiMsg(statusText) ==
    <<"An error occured while fetching the chainlink vrf cost from API: ", statusText>>
NotAllowedMsg == <<"The token isn't allowed for betting">>
AmountTooHighMsg(max) == <<"Bet amount should be less than ">> \o NatToString(max)
CountTooHighMsg(max) == <<"Bet count should be less than ">> \o NatToString(max)

RECURSIVE Join(_)
Join(symbols) ==
    IF symbols = <<>> THEN <<>>
    ELSE IF Len(symbols) = 1 THEN symbols
    ELSE <<symbols[1], ", ">> \o Join(Tail(symbols))

TokenListMsg(symbols) == <<"The token must be one of ">> \o Join(symbols)

(***************************************************************************)
(* The environment: the wallet's network, the casino contracts, the fee    *)
(* API and the indexer.  Absent values are the empty sequence, present     *)
(* values a one-element sequence.                                          *)
(***************************************************************************)
Actions == {"coinToss", "dice", "roulette", "getBet"}

\* walletProvider.getNetwork().chainId
ChainIds == {<<>>, <<"8453">>}

\* casinoChainById[chainId].viemChain.nativeCurrency
NativeCurrency == [symbol |-> "ETH", decimals |-> NativeDecimals]

\* chainNativeCurrencyToToken(nativeCurrency)
chainNativeCurrencyToToken(currency) ==
    [symbol |-> currency.symbol, address |-> "0x0000", decimals |-> currency.decimals]

RawToken(symbol, address, allowed, isPaused) ==
    [symbol |-> symbol, address |-> address, decimals |-> TokenDecimals,
     allowed |-> allowed, paused |-> isPaused]

\* what the bank contract's getTokens may answer
RawTokenLists ==
    { <<>>,
      << RawToken("BETS", "0xb1", TRUE, TRUE),
         RawToken("USDC", "0xc1", TRUE, FALSE),
         RawToken("DEGEN", "0xd1", FALSE, FALSE),
         RawToken("USDC", "0xc2", TRUE, FALSE),
         RawToken("WETH", "0xe1", TRUE, FALSE) >> }

\* args.token
TokenInputs == {<<>>, <<"">>, <<"ETH">>, <<"USDC">>, <<"usdc">>, <<"BETS">>}

\* args.betAmount
AmountInputs ==
    { <<"1">>, <<"0">>, <<>>, <<"-", "1">>, <<"0", ".", "3">>,
      <<"0", ".", "0", "0", "5">>, <<"-", "0", ".", "0", "0", "0", "4">>,
      <<"1", "e", "3">> }

\* parseRawBetRequirements(...)
BetRequirements ==
    [isAllowed : BOOLEAN,
     maxBetAmount : {LowMaxBetAmount, HighMaxBetAmount},
     maxBetCount : 0..MaxMaxBetCount]

\* the integer the fee API answers with
Fees == {0, MaxFee \div 2, MaxFee}

\* how long one indexer query takes
Latencies == {0, MaxLatency}

ReadErrorMsg == <<"readContract reverted">>
FetchErrorMsg == <<"fetch failed">>
SendErrorMsg == <<"sendTransaction rejected">>

\* the options of one fetchBetByHash call
SubgraphClient(chainId, graphKey, formatType) ==
    [chainId |-> chainId, theGraphKey |-> graphKey, formatType |-> formatType]

\* FORMAT_TYPE the SDK formats with when the options name none
DefaultFormatType == "STANDARD"

UsedFormatType(opts) ==
    IF opts.formatType = <<>> THEN DefaultFormatType ELSE opts.formatType[1]

\* a bet as the indexer answers it to a query made with opts
SubgraphBet(id, isResolved, roll, opts) ==
    [id |-> id, isResolved |-> isResolved, rollTxnHash |-> roll,
     betTxnHash |-> "0xbet", game |-> "game", token |-> "ETH",
     formattedBetAmount |-> <<"betAmount", UsedFormatType(opts)>>,
     formattedPayout |-> <<"payout", UsedFormatType(opts)>>]

SubgraphErrors == {[code |-> "SUBGRAPH_ERROR", message |-> "indexer unavailable"]}

\* what fetchBetByHash may answer to a query made with opts
SubgraphResponses(opts) ==
    LET resolved == {SubgraphBet(0, TRUE, <<"0xroll">>, opts),
                     SubgraphBet(MaxBetId, TRUE, <<>>, opts)}
        pending  == {SubgraphBet(MaxBetId, FALSE, <<>>, opts)}
    IN  [bet : {<<>>} \cup {<<b>> : b \in resolved \cup pending}, error : {<<>>}]
        \cup [bet : {<<>>, <<SubgraphBet(MaxBetId, TRUE, <<>>, opts)>>},
              error : {<<e>> : e \in SubgraphErrors}]

(***************************************************************************)
(* State.                                                                  *)
(***************************************************************************)
VARIABLES
    action,            \* the invoked action
    network,           \* walletProvider.getNetwork()
    args,              \* the validated arguments
    theGraphKey,       \* this.theGraphKey
    pc,                \* where the invocation stands
    paused,            \* checkLiveGame's result
    rawCasinoTokens,   \* the token list as the bank contract answered it
    casinoTokens,      \* getCasinoTokens' result
    selectedToken,     \* getBetToken's result
    betAmountInWei,    \* getBetAmountInWei's result
    casinoGameParams,  \* the bet handed to placeBet
    betRequirements,   \* getBetRequirements' result
    vrfEstimate,       \* the fee API's answer
    vrfCost,           \* the estimate with its margin
    sentTx,            \* the transaction handed to sendTransaction
    betHash,           \* placeBet's result
    betData,           \* the latest indexer response
    queryOpts,         \* the options of the latest indexer query
    startTime,         \* Date.now() when polling began
    now,               \* the clock, ms
    calls,             \* how often each collaborator was called, and how often one failed
    outcome            \* how the invocation ended

vars == <<action, network, args, theGraphKey, pc, paused, rawCasinoTokens, casinoTokens, selectedToken,
          betAmountInWei, casinoGameParams, betRequirements, vrfEstimate, vrfCost,
          sentTx, betHash, betData, queryOpts, startTime, now, calls, outcome>>

locals == <<paused, rawCasinoTokens, casinoTokens, selectedToken, betAmountInWei, casinoGameParams,
            betRequirements, vrfEstimate, vrfCost, sentTx, betHash>>

poller == <<betData, queryOpts, startTime, now>>

inputs == <<action, network, args, theGraphKey>>

NoCalls ==
    [getNetwork |-> 0, getAddress |-> 0, readContract |-> 0, sendTransaction |-> 0,
     fetchVrf |-> 0, fetchBetByHash |-> 0, fetchBets |-> 0, sleep |-> 0, failed |-> 0]

Pending == [status |-> "pending", error |-> <<>>, value |-> <<>>]

Init ==
    /\ action \in Actions
    /\ network \in [chainId : ChainIds]
    /\ args \in [token : TokenInputs, betAmount : AmountInputs, hash : {"0xbet"}]
    /\ action = "getBet" => args.token = <<>> /\ args.betAmount = <<"1">>
    /\ theGraphKey = <<"key">>
    /\ pc = IF action = "getBet" THEN "getBet" ELSE "checkLiveGame"
    /\ paused = <<>>
    /\ rawCasinoTokens = <<>>
    /\ casinoTokens = <<>>
    /\ selectedToken = <<>>
    /\ betAmountInWei = 0
    /\ casinoGameParams = <<>>
    /\ betRequirements = <<>>
    /\ vrfEstimate = 0
    /\ vrfCost = 0
    /\ sentTx = <<>>
    /\ betHash = <<>>
    /\ betData = [bet |-> <<>>, error |-> <<>>]
    /\ queryOpts = <<>>
    /\ startTime = 0
    /\ now = 0
    /\ calls = NoCalls
    /\ outcome = Pending

(***************************************************************************)
(* How an invocation ends.                                                 *)
(***************************************************************************)
Throw(msg) ==
    /\ outcome' = [status |-> "thrown", error |-> msg, value |-> <<>>]
    /\ pc' = "done"

Return(value) ==
    /\ outcome' = [status |-> "returned", error |-> <<>>, value |-> <<value>>]
    /\ pc' = "done"

Called(names) == [n \in DOMAIN calls |-> calls[n] + names[n]]

\* getChainId: !chainId
NoChainId == network.chainId = <<>> \/ network.chainId[1] = ""

(***************************************************************************)
(* checkLiveGame: reads the game contract's paused flag and returns it.    *)
(***************************************************************************)
CheckLiveGame ==
    /\ pc = "checkLiveGame"
    /\ UNCHANGED <<inputs, poller>>
    /\ UNCHANGED <<rawCasinoTokens, casinoTokens, selectedToken, betAmountInWei,
                   casinoGameParams, betRequirements, vrfEstimate, vrfCost, sentTx,
                   betHash>>
    /\ IF NoChainId
       THEN /\ calls' = Called([NoCalls EXCEPT !.getNetwork = 1])
            /\ Throw(NoChainIdMsg)
            /\ UNCHANGED paused
       ELSE \/ /\ calls' = Called([NoCalls EXCEPT !.getNetwork = 1, !.readContract = 1,
                                                  !.failed = 1])
               /\ Throw(ReadErrorMsg)
               /\ UNCHANGED paused
            \/ /\ calls' = Called([NoCalls EXCEPT !.getNetwork = 1, !.readContract = 1])
               /\ \E p \in BOOLEAN : paused' = <<p>>
               /\ pc' = "getBetToken"
               /\ UNCHANGED outcome

(***************************************************************************)
(* getCasinoTokens and getBetToken.                                        *)
(***************************************************************************)
\* the filter with the paused test left out
TokenListed_IgnoresPaused(rawToken) == rawToken.allowed

\* .filter(rawToken => rawToken.token.allowed && !rawToken.token.paused)
TokenListed(rawToken) == rawToken.allowed /\ ~rawToken.paused

\* rawTokenToToken(rawToken, chainId) with decimals: Number(rawToken.decimals)
rawTokenToToken(rawToken) ==
    [symbol |-> rawToken.symbol, address |-> rawToken.address,
     decimals |-> rawToken.decimals]

RECURSIVE FilterTokens(_)
FilterTokens(raw) ==
    IF raw = <<>> THEN <<>>
    ELSE IF TokenListed(raw[1])
         THEN <<rawTokenToToken(raw[1])>> \o FilterTokens(Tail(raw))
         ELSE FilterTokens(Tail(raw))

Symbols(tokens) == [i \in 1..Len(tokens) |-> tokens[i].symbol]

\* tokenSymbolInput && tokenSymbolInput !== casinoChain.viemChain.nativeCurrency.symbol
LooksUpToken(tokenSymbolInput) ==
    /\ tokenSymbolInput # <<>>
    /\ tokenSymbolInput[1] # ""
    /\ tokenSymbolInput[1] # NativeCurrency.symbol

\* casinoTokens.find(casinoToken => casinoToken.symbol === tokenSymbolInput)
FindToken(tokens, symbol) ==
    LET hits == {i \in 1..Len(tokens) : tokens[i].symbol = symbol}
    IN  IF hits = {} THEN <<>>
        ELSE <<tokens[CHOOSE i \in hits : \A j \in hits : i <= j]>>

GetBetToken ==
    /\ pc = "getBetToken"
    /\ UNCHANGED <<inputs, poller>>
    /\ UNCHANGED <<paused, betAmountInWei, casinoGameParams, betRequirements,
                   vrfEstimate, vrfCost, sentTx, betHash>>
    /\ IF LooksUpToken(args.token)
       THEN \/ /\ calls' = Called([NoCalls EXCEPT !.getNetwork = 2, !.readContract = 1,
                                                  !.failed = 1])
               /\ Throw(ReadErrorMsg)
               /\ UNCHANGED <<rawCasinoTokens, casinoTokens, selectedToken>>
            \/ /\ calls' = Called([NoCalls EXCEPT !.getNetwork = 2, !.readContract = 1])
               /\ \E raw \in RawTokenLists :
                    LET tokens == FilterTokens(raw)
                        found  == FindToken(tokens, args.token[1])
                    IN  /\ rawCasinoTokens' = <<raw>>
                        /\ casinoTokens' = <<tokens>>
                        /\ selectedToken' = found
                        /\ IF found = <<>>
                           THEN Throw(TokenListMsg(Symbols(tokens)))
                           ELSE pc' = "getBetAmountInWei" /\ UNCHANGED outcome
       ELSE /\ calls' = Called([NoCalls EXCEPT !.getNetwork = 1])
            /\ selectedToken' = <<chainNativeCurrencyToToken(NativeCurrency)>>
            /\ pc' = "getBetAmountInWei"
            /\ UNCHANGED <<rawCasinoTokens, casinoTokens, outcome>>

(***************************************************************************)
(* getBetAmountInWei.                                                      *)
(***************************************************************************)
\* the test with < for <=, which lets a zero amount through
AmountRejected_ZeroPasses(wei) == wei < 0

\* betAmountInWei <= 0n
AmountRejected(wei) == wei <= 0

GetBetAmountInWei ==
    /\ pc = "getBetAmountInWei"
    /\ UNCHANGED <<inputs, poller, calls>>
    /\ UNCHANGED <<paused, rawCasinoTokens, casinoTokens, selectedToken, casinoGameParams,
                   betRequirements, vrfEstimate, vrfCost, sentTx, betHash>>
    /\ IF ~ParseUnitsValid(args.betAmount)
       THEN Throw(InvalidDecimalMsg(args.betAmount)) /\ UNCHANGED betAmountInWei
       ELSE LET wei == parseUnits(args.betAmount, selectedToken[1].decimals)
            IN  /\ betAmountInWei' = wei
                /\ IF AmountRejected(wei)
                   THEN Throw(AmountMsg)
                   ELSE pc' = "placeBet" /\ UNCHANGED outcome

(***************************************************************************)
(* placeBet: the requirements gate, the VRF fee, the submission.           *)
(***************************************************************************)
\* the bet coinToss, dice and roulette hand to placeBet
\* the bet filled from the request's own betCount, stopGain, stopLoss and receiver
ActionBet_FromRequest(wei, token) ==
    [betAmount |-> wei, betToken |-> token,
     betCount |-> IF args.betCount = <<>> THEN ActionBetCount ELSE args.betCount[1],
     receiver |-> IF args.receiver = <<>> THEN "0xwallet" ELSE args.receiver[1],
     stopGain |-> IF args.stopGain = <<>> THEN 0 ELSE DigitsToNat(args.stopGain[1]),
     stopLoss |-> IF args.stopLoss = <<>> THEN 0 ELSE DigitsToNat(args.stopLoss[1])]

ActionBet(wei, token) ==
    [betAmount |-> wei, betToken |-> token, betCount |-> ActionBetCount,
     receiver |-> "0xwallet", stopGain |-> 0, stopLoss |-> 0]

\* the gate with the bet-count check left out
GateError_NoCountCheck(requirements, params) ==
    IF ~requirements.isAllowed THEN NotAllowedMsg
    ELSE IF params.betAmount > requirements.maxBetAmount
         THEN AmountTooHighMsg(requirements.maxBetAmount)
    ELSE <<>>

\* the three checks of placeBet: the message of the first that fails, or <<>>
GateError(requirements, params) ==
    IF ~requirements.isAllowed THEN NotAllowedMsg
    ELSE IF params.betAmount > requirements.maxBetAmount
         THEN AmountTooHighMsg(requirements.maxBetAmount)
    ELSE IF params.betCount > requirements.maxBetCount
         THEN CountTooHighMsg(requirements.maxBetCount)
    ELSE <<>>

\* the calls when the receiver is taken from the request instead of the wallet
PlaceBetCalls_NoGetAddress ==
    [NoCalls EXCEPT !.getNetwork = 2, !.readContract = 1]

\* the wallet calls from the call of placeBet to the end of its requirements read:
\* walletProvider.getAddress() for the receiver, getChainId in placeBet and in
\* getBetRequirements, and the readContract of getBetRequirements
PlaceBetCalls ==
    [NoCalls EXCEPT !.getAddress = 1, !.getNetwork = 2, !.readContract = 1]

PlaceBetRequirements ==
    /\ pc = "placeBet"
    /\ UNCHANGED <<inputs, poller>>
    /\ UNCHANGED <<paused, rawCasinoTokens, casinoTokens, selectedToken, betAmountInWei,
                   vrfEstimate, vrfCost, sentTx, betHash>>
    /\ casinoGameParams' = <<ActionBet(betAmountInWei, selectedToken[1])>>
    /\ \/ /\ calls' = Called([PlaceBetCalls EXCEPT !.failed = 1])
          /\ Throw(RequirementsWrap(ReadErrorMsg))
          /\ UNCHANGED betRequirements
       \/ /\ calls' = Called(PlaceBetCalls)
          /\ \E requirements \in BetRequirements :
               LET error == GateError(requirements, casinoGameParams'[1])
               IN  /\ betRequirements' = <<requirements>>
                   /\ IF error # <<>>
                      THEN Throw(error)
                      ELSE pc' = "vrfCost" /\ UNCHANGED outcome

\* (estimate * 120n) / 100n
\* the margin with the quotient rounded up instead of truncated
WithMargin_RoundsUp(estimate) ==
    (estimate * VrfMarginNum + VrfMarginDen - 1) \div VrfMarginDen

WithMargin(estimate) == (estimate * VrfMarginNum) \div VrfMarginDen

GetChainlinkVrfCost ==
    /\ pc = "vrfCost"
    /\ UNCHANGED <<inputs, poller>>
    /\ UNCHANGED <<paused, rawCasinoTokens, casinoTokens, selectedToken, betAmountInWei,
                   casinoGameParams, betRequirements, sentTx, betHash>>
    /\ \/ /\ calls' = Called([NoCalls EXCEPT !.getNetwork = 1, !.fetchVrf = 1,
                                             !.failed = 1])
          /\ Throw(PlaceBetWrap(VrfCostWrap(FetchErrorMsg)))
          /\ UNCHANGED <<vrfEstimate, vrfCost>>
       \/ /\ calls' = Called([NoCalls EXCEPT !.getNetwork = 1, !.fetchVrf = 1,
                                             !.failed = 1])
          /\ Throw(PlaceBetWrap(VrfCostWrap(VrfApiMsg("Bad Gateway"))))
          /\ UNCHANGED <<vrfEstimate, vrfCost>>
       \/ /\ calls' = Called([NoCalls EXCEPT !.getNetwork = 1, !.fetchVrf = 1])
          /\ \E fee \in Fees :
               /\ vrfEstimate' = fee
               /\ vrfCost' = WithMargin(fee)
          /\ pc' = "sendTransaction"
          /\ UNCHANGED outcome

\* a submission that goes back to the fee fetch when the wallet rejects it
SendTransaction_Retries ==
    /\ pc = "sendTransaction"
    /\ UNCHANGED <<inputs, poller, outcome>>
    /\ UNCHANGED <<paused, rawCasinoTokens, casinoTokens, selectedToken, betAmountInWei,
                   casinoGameParams, betRequirements, vrfEstimate, vrfCost>>
    /\ sentTx' = <<[game |-> action, bet |-> casinoGameParams[1], vrfCost |-> vrfCost]>>
    /\ \/ /\ calls' = Called([NoCalls EXCEPT !.sendTransaction = 1, !.failed = 1])
          /\ pc' = "vrfCost"
          /\ UNCHANGED betHash
       \/ /\ calls' = Called([NoCalls EXCEPT !.sendTransaction = 1])
          /\ betHash' = <<args.hash>>
          /\ pc' = "getBet"

SendTransaction ==
    /\ pc = "sendTransaction"
    /\ UNCHANGED <<inputs, poller>>
    /\ UNCHANGED <<paused, rawCasinoTokens, casinoTokens, selectedToken, betAmountInWei,
                   casinoGameParams, betRequirements, vrfEstimate, vrfCost>>
    /\ sentTx' = <<[game |-> action, bet |-> casinoGameParams[1], vrfCost |-> vrfCost]>>
    /\ \/ /\ calls' = Called([NoCalls EXCEPT !.sendTransaction = 1, !.failed = 1])
          /\ Throw(PlaceBetWrap(SendErrorMsg))
          /\ UNCHANGED betHash
       \/ /\ calls' = Called([NoCalls EXCEPT !.sendTransaction = 1])
          /\ betHash' = <<args.hash>>
          /\ pc' = "getBet"
          /\ UNCHANGED outcome

(***************************************************************************)
(* getBet: the resolution poller.                                          *)
(***************************************************************************)
\* the loop condition testing only that a bet is there
Unresolved_IgnoresIsResolved(data) ==
    /\ data.bet = <<>>
    /\ data.error = <<>>

\* the loop condition without the error test
Unresolved_IgnoresError(data) ==
    data.bet = <<>> \/ ~data.bet[1].isResolved

\* (!betData.bet || !betData.bet.isResolved) && !betData.error
Unresolved(data) ==
    /\ data.bet = <<>> \/ ~data.bet[1].isResolved
    /\ data.error = <<>>

\* the elapsed-time check with > for >=
TimedOut_Strict(clock, start) == clock - start > timeout

\* Date.now() - startTime >= timeout
TimedOut(clock, start) == clock - start >= timeout

\* formatTxnUrl(hash, chainId)
formatTxnUrl(hash) == <<"https://basescan.org/tx/", hash>>

\* the record getBet returns
BetDetails(bet) ==
    [id |-> NatToString(bet.id),
     betTxnHash |-> bet.betTxnHash,
     betTxnLink |-> formatTxnUrl(bet.betTxnHash),
     betAmount |-> bet.formattedBetAmount,
     token |-> bet.token,
     payout |-> bet.formattedPayout,
     rollTxnHash |-> bet.rollTxnHash,
     rollTxnLink |-> IF bet.rollTxnHash # <<>> THEN formatTxnUrl(bet.rollTxnHash[1])
                     ELSE <<>>,
     linkOnBetSwirl |-> <<"https://www.betswirl.com/", "base", "/casino/", bet.game, "/">>
                        \o NatToString(bet.id)]

\* the hash getBet looks up
TxHash == IF action = "getBet" THEN args.hash ELSE betHash[1]

\* the first fetchBetByHash, with formatType: FORMAT_TYPE.PRECISE
GetBetFirstQuery ==
    /\ pc = "getBet"
    /\ UNCHANGED <<inputs, locals>>
    /\ IF NoChainId
       THEN /\ calls' = Called([NoCalls EXCEPT !.getNetwork = 1])
            /\ Throw(NoChainIdMsg)
            /\ UNCHANGED poller
       ELSE LET opts == SubgraphClient(network.chainId[1], theGraphKey, <<"PRECISE">>)
            IN  /\ calls' = Called([NoCalls EXCEPT !.getNetwork = 1, !.fetchBetByHash = 1])
                /\ queryOpts' = <<opts>>
                /\ \E response \in SubgraphResponses(opts), d \in Latencies :
                     /\ betData' = response
                     /\ now' = now + d
                     /\ startTime' = now + d
                /\ pc' = "loop"
                /\ UNCHANGED outcome

\* the while condition and the elapsed-time check that opens each iteration
LoopTest ==
    /\ pc = "loop"
    /\ UNCHANGED <<inputs, locals, poller, calls>>
    /\ IF Unresolved(betData)
       THEN IF TimedOut(now, startTime)
            THEN Throw(GetBetWrap(TimeoutMsg))
            ELSE pc' = "sleep" /\ UNCHANGED outcome
       ELSE pc' = "afterLoop" /\ UNCHANGED outcome

\* await new Promise(resolve => setTimeout(resolve, 1000))
Sleep ==
    /\ pc = "sleep"
    /\ UNCHANGED <<inputs, locals, betData, queryOpts, startTime, outcome>>
    /\ calls' = Called([NoCalls EXCEPT !.sleep = 1])
    /\ now' = now + SleepMs
    /\ pc' = "poll"

\* betData = await fetchBetByHash(txHash, { chainId, theGraphKey }); break on error
Poll ==
    /\ pc = "poll"
    /\ UNCHANGED <<inputs, locals, startTime, outcome>>
    /\ LET opts == SubgraphClient(network.chainId[1], theGraphKey, <<>>)
       IN  /\ calls' = Called([NoCalls EXCEPT !.fetchBetByHash = 1])
           /\ queryOpts' = <<opts>>
           /\ \E response \in SubgraphResponses(opts), d \in Latencies :
                /\ betData' = response
                /\ now' = now + d
                /\ pc' = IF response.error # <<>> THEN "afterLoop" ELSE "loop"

\* what follows the loop: the indexer's error, the missing bet, or the record
AfterLoop ==
    /\ pc = "afterLoop"
    /\ UNCHANGED <<inputs, locals, poller, calls>>
    /\ IF betData.error # <<>>
       THEN Throw(GetBetWrap(IndexerErrorMsg(betData.error[1])))
       ELSE IF betData.bet = <<>>
            THEN Throw(GetBetWrap(NotIndexedMsg(TxHash)))
            ELSE Return(BetDetails(betData.bet[1]))

Next ==
    \/ CheckLiveGame
    \/ GetBetToken
    \/ GetBetAmountInWei
    \/ PlaceBetRequirements
    \/ GetChainlinkVrfCost
    \/ SendTransaction
    \/ GetBetFirstQuery
    \/ LoopTest
    \/ Sleep
    \/ Poll
    \/ AfterLoop

Spec == Init /\ [][Next]_vars

TypeOK ==
    /\ pc \in {"checkLiveGame", "getBetToken", "getBetAmountInWei", "placeBet", "vrfCost",
               "sendTransaction", "getBet", "loop", "sleep", "poll", "afterLoop", "done",
               "supportsNetwork", "safeParse", "getBets"}
    /\ outcome.status \in {"pending", "returned", "thrown"}
    /\ (pc = "done") = (outcome.status # "pending")

(***************************************************************************)
(* Properties.                                                             *)
(***************************************************************************)
IsBetAction == action \in {"coinToss", "dice", "roulette"}

Thrown == outcome.status = "thrown"

Returned == outcome.status = "returned"

\* C1: when the casino contract reports the game as paused, coinToss, dice and
\* roulette fail with an error and never call sendTransaction.
C1_PausedGameNeverSubmits ==
    paused = <<TRUE>> =>
        /\ calls.sendTransaction = 0
        /\ pc = "done" => Thrown

\* the three checks of the gate, on the requirements read and the bet handed over
GatePassed ==
    /\ betRequirements # <<>>
    /\ betRequirements[1].isAllowed
    /\ casinoGameParams[1].betAmount <= betRequirements[1].maxBetAmount
    /\ casinoGameParams[1].betCount <= betRequirements[1].maxBetCount

\* C2: placeBet calls the fee API and sendTransaction only after a successful
\* requirements read whose three checks all passed; when the read says the token
\* is not allowed, or the amount or the count is above its maximum, placeBet has
\* thrown without calling either.
C2_GateBeforeSubmission ==
    /\ (calls.fetchVrf > 0 \/ calls.sendTransaction > 0) => GatePassed
    /\ (betRequirements # <<>> /\ ~GatePassed) =>
          /\ Thrown
          /\ calls.fetchVrf = 0
          /\ calls.sendTransaction = 0

\* C2 witness: the requirements read allowed the token and the amount but not the
\* count, and the invocation ended rejected.
C2_Witness ==
    /\ betRequirements # <<>>
    /\ betRequirements[1].isAllowed
    /\ casinoGameParams[1].betAmount <= betRequirements[1].maxBetAmount
    /\ casinoGameParams[1].betCount > betRequirements[1].maxBetCount
    /\ Thrown

\* C3: one invocation calls sendTransaction at most once and the fee API at most
\* once; once a contract read, the fee fetch or the submission has failed, the
\* invocation has ended rejected, so nothing more is read, fetched or submitted.
C3_NoRetries ==
    /\ calls.sendTransaction <= 1
    /\ calls.fetchVrf <= 1
    /\ calls.failed > 0 =>
          /\ calls.failed = 1
          /\ pc = "done"
          /\ Thrown

\* C3 witness: the submission itself was rejected.
C3_Witness ==
    /\ calls.failed = 1
    /\ calls.sendTransaction = 1
    /\ outcome.error = PlaceBetWrap(SendErrorMsg)

\* C4: getBet returns a record only when the latest indexer response carries no
\* error and holds a bet marked resolved.
C4_ReturnsOnlyResolved ==
    Returned =>
        /\ betData.error = <<>>
        /\ betData.bet # <<>>
        /\ betData.bet[1].isResolved
        /\ outcome.value = <<BetDetails(betData.bet[1])>>

\* C4 witness: a record returned for a bet that became resolved at a later poll.
C4_Witness ==
    /\ Returned
    /\ calls.fetchBetByHash >= 3

\* C5: once an indexer response carries an error, getBet neither sleeps nor
\* queries again, and it ends with an error made of that error's code and message.
C5_IndexerErrorEndsPolling ==
    [][/\ betData.error # <<>> => (calls' = calls /\ betData' = betData)
       /\ (betData'.error # <<>> /\ pc' = "done") =>
             /\ outcome'.status = "thrown"
             /\ outcome'.error = GetBetWrap(IndexerErrorMsg(betData'.error[1]))]_vars

\* C5 witness: the error arrived at a later poll and getBet has thrown.
C5_Witness ==
    /\ betData.error # <<>>
    /\ calls.fetchBetByHash >= 3
    /\ Thrown

\* getBet ended with its timeout error
TimeoutThrown == Thrown /\ outcome.error = GetBetWrap(TimeoutMsg)

\* C6: getBet sleeps and polls again only while less than 60 seconds have elapsed
\* since polling began; it reports the timeout only when 60 seconds have elapsed
\* and the latest response is error-free and not a resolved bet.
C6_TimeoutAtDeadline ==
    /\ pc = "sleep" => now - startTime < timeout
    /\ pc = "poll" => (now - SleepMs) - startTime < timeout
    /\ TimeoutThrown =>
          /\ now - startTime >= timeout
          /\ betData.error = <<>>
          /\ betData.bet = <<>> \/ ~betData.bet[1].isResolved

\* C6 witness: sixty polls, one second apart, all unresolved, then the timeout.
C6_Witness ==
    /\ TimeoutThrown
    /\ calls.fetchBetByHash = 61
    /\ now - startTime = timeout

\* C7: when getBet ends because the bet was not resolved within 60 seconds, its
\* error is the "hasn't been indexed in time, please retry later" message.
C7_TimeoutSaysRetryLater ==
    (pc = "done" /\ calls.fetchBetByHash > 0 /\ Thrown /\ betData.error = <<>>) =>
        outcome.error = GetBetWrap(NotIndexedMsg(TxHash))

\* the token was looked up in the supported-token list
LookedUp == rawCasinoTokens # <<>>

\* C8 as stated: in a successful bet placement getNetwork, getAddress,
\* readContract and sendTransaction are each invoked exactly once.
C8_EachCalledOnce ==
    (IsBetAction /\ Returned) =>
        /\ calls.getNetwork = 1
        /\ calls.getAddress = 1
        /\ calls.readContract = 1
        /\ calls.sendTransaction = 1
        /\ outcome.value[1].id # <<>>

\* C8 amended: in a successful bet placement getAddress and sendTransaction are
\* each invoked exactly once, readContract twice (the paused flag and the bet
\* requirements) and getNetwork six times, each once more when the token is looked
\* up in the supported-token list, and the returned record has a non-empty id.
C8_CallsOfASuccessfulBet ==
    (IsBetAction /\ Returned) =>
        /\ calls.getAddress = 1
        /\ calls.sendTransaction = 1
        /\ calls.readContract = IF LookedUp THEN 3 ELSE 2
        /\ calls.getNetwork = IF LookedUp THEN 7 ELSE 6
        /\ outcome.value[1].id # <<>>

\* C8 witness: a coin toss with the native token that returned its record.
C8_Witness ==
    /\ action = "coinToss"
    /\ args.token = <<"ETH">>
    /\ args.betAmount = <<"1">>
    /\ Returned

\* the amount conversion ran and gave a value that is zero or negative
NonPositiveAmount ==
    /\ IsBetAction
    /\ selectedToken # <<>>
    /\ pc # "getBetAmountInWei"
    /\ ParseUnitsValid(args.betAmount)
    /\ parseUnits(args.betAmount, selectedToken[1].decimals) <= 0

\* C9 as stated: a bet amount converting to zero or less fails with the "must be
\* greater than 0" error before any network call.
C9_FailsBeforeAnyNetworkCall ==
    NonPositiveAmount =>
        /\ Thrown /\ outcome.error = AmountMsg
        /\ calls.readContract = 0
        /\ calls.fetchVrf = 0
        /\ calls.sendTransaction = 0
        /\ calls.fetchBetByHash = 0

\* C9 amended: a bet amount converting to zero or less fails with the "must be
\* greater than 0" error after the contract read of the paused flag (and the read
\* of the token list when the token is looked up) and before any bet-requirements
\* read, fee API request, transaction submission or indexer query.
C9_FailsBeforePlacingTheBet ==
    NonPositiveAmount =>
        /\ Thrown /\ outcome.error = AmountMsg
        /\ calls.readContract = IF LookedUp THEN 2 ELSE 1
        /\ calls.getAddress = 0
        /\ calls.fetchVrf = 0
        /\ calls.sendTransaction = 0
        /\ calls.fetchBetByHash = 0

\* C9 witness: an amount that rounds to zero at the listed token's precision.
C9_Witness ==
    /\ Thrown /\ outcome.error = AmountMsg
    /\ LookedUp
    /\ args.betAmount = <<"0", ".", "0", "0", "5">>

\* getBetToken has run to its end: it chose a token or read the list
GetBetTokenRan == selectedToken # <<>> \/ rawCasinoTokens # <<>>

\* the listed tokens: the allowed, unpaused tokens of the contract's answer
ListedTokens ==
    {rawTokenToToken(rawCasinoTokens[1][i]) :
        i \in {j \in 1..Len(rawCasinoTokens[1]) :
                 rawCasinoTokens[1][j].allowed /\ ~rawCasinoTokens[1][j].paused}}

\* what getBetToken does when it looks the symbol up: one read of the list, the
\* listed token of that symbol, or the error naming the listed symbols
LookupResult ==
    /\ rawCasinoTokens # <<>>
    /\ pc = "getBetAmountInWei" => calls.readContract = 2
    /\ {casinoTokens[1][i] : i \in 1..Len(casinoTokens[1])} = ListedTokens
    /\ IF \E t \in ListedTokens : t.symbol = args.token[1]
       THEN /\ selectedToken # <<>>
            /\ selectedToken[1] \in ListedTokens
            /\ selectedToken[1].symbol = args.token[1]
       ELSE /\ selectedToken = <<>>
            /\ Thrown
            /\ outcome.error =
                 <<"The token must be one of ">> \o Join(Symbols(casinoTokens[1]))

\* what getBetToken does when it does not: the native token, the list unread
NativeResult ==
    /\ rawCasinoTokens = <<>>
    /\ selectedToken = <<chainNativeCurrencyToToken(NativeCurrency)>>
    /\ pc = "getBetAmountInWei" => calls.readContract = 1

\* C10 as stated: the native token without a read when the symbol is omitted or
\* is the native symbol; otherwise one read of the list and the listed token of
\* exactly that symbol, or the error enumerating the listed symbols.
C10_NativeOnlyWhenOmittedOrNative ==
    GetBetTokenRan =>
        IF args.token = <<>> \/ args.token = <<NativeCurrency.symbol>>
        THEN NativeResult
        ELSE LookupResult

\* C10 amended: the native token without a read when the symbol is omitted, is
\* the empty string or is the native symbol; otherwise as stated.
C10_NativeWhenOmittedEmptyOrNative ==
    GetBetTokenRan =>
        IF args.token \in {<<>>, <<"">>, <<NativeCurrency.symbol>>}
        THEN NativeResult
        ELSE LookupResult

\* C10 witness: a paused token's symbol is refused with the listed symbols.
C10_Witness ==
    /\ args.token = <<"BETS">>
    /\ Thrown
    /\ outcome.error = <<"The token must be one of ", "USDC", ", ", "USDC", ", ", "WETH">>


(***************************************************************************)
(* The provider's other operations: supportsNetwork, the input schemas and *)
(* getBets.  Each is one call on the same state: `action` names the        *)
(* operation, `network` and `args` hold what it is called with, `outcome`  *)
(* what it answers.  A JavaScript value is a record of its type and value. *)
(***************************************************************************)
Str(chars) == [t |-> "string", v |-> chars]

Num(n) == [t |-> "number", v |-> n]

\* nothing called, nothing read, nothing answered yet
Idle ==
    /\ theGraphKey = <<"key">>
    /\ paused = <<>>
    /\ rawCasinoTokens = <<>>
    /\ casinoTokens = <<>>
    /\ selectedToken = <<>>
    /\ betAmountInWei = 0
    /\ casinoGameParams = <<>>
    /\ betRequirements = <<>>
    /\ vrfEstimate = 0
    /\ vrfCost = 0
    /\ sentTx = <<>>
    /\ betHash = <<>>
    /\ betData = [bet |-> <<>>, error |-> <<>>]
    /\ queryOpts = <<>>
    /\ startTime = 0
    /\ now = 0
    /\ calls = NoCalls
    /\ outcome = Pending

\* casinoChains.map(casinoChain => casinoChain.id) of the SDK
CasinoChainIds == {8453, 42161, 137, 43114, 56, 84532, 421614, 80002, 43113}

\* Number(network.chainId): <<>> for NaN
ToNumber(chainId) ==
    IF chainId = <<>> THEN <<>>
    ELSE IF \A i \in 1..Len(chainId[1]) : IsDigit(chainId[1][i])
         THEN <<DigitsToNat(chainId[1])>>
         ELSE <<>>

\* casinoChains.some(casinoChain => casinoChain.id === Number(network.chainId))
OnCasinoChain(chainId) ==
    ToNumber(chainId) # <<>> /\ ToNumber(chainId)[1] \in CasinoChainIds

\* network.protocolFamily === "evm" && casinoChains.some(...)
supportsNetwork(net) ==
    /\ net.protocolFamily = <<"evm">>
    /\ OnCasinoChain(net.chainId)

\* the networks supportsNetwork is asked about
Networks ==
    [protocolFamily : {<<>>, <<"evm">>, <<"svm">>, <<"other-protocol-family">>},
     chainId : {<<>>, <<<<"8", "4", "5", "3">>>>, <<<<"1", "3", "7">>>>, <<<<"1">>>>,
                <<<<"b", "a", "s", "e">>>>}]

SupportsNetwork ==
    /\ pc = "supportsNetwork"
    /\ UNCHANGED <<inputs, locals, poller, calls>>
    /\ Return(supportsNetwork(network))


(***************************************************************************)
(* The input schemas.  A request is a record of its fields, each absent    *)
(* (<<>>) or a one-element sequence holding a JavaScript value.            *)
(***************************************************************************)
\* {40} in hexAddress
AddressHexLen == 40
\* {64} in GetBetSchema.hash
HashHexLen == 64

\* [a-fA-F0-9]
IsHex(c) ==
    c \in {"0", "1", "2", "3", "4", "5", "6", "7", "8", "9",
           "a", "b", "c", "d", "e", "f", "A", "B", "C", "D", "E", "F"}

\* 0x[a-fA-F0-9]{n} matched from position i of chars
HexMatchesAt(chars, i, n) ==
    /\ i + 1 + n <= Len(chars)
    /\ chars[i] = "0"
    /\ chars[i + 1] = "x"
    /\ \A k \in 1..n : IsHex(chars[i + 1 + k])

\* z.string()
IsString(field) == field # <<>> /\ field[1].t = "string"

\* z.string().optional()
IsOptionalString(field) == field = <<>> \/ field[1].t = "string"

\* z.string().regex(/^0x[a-fA-F0-9]{40}$/): the match starts the string and ends it
hexAddress(field) ==
    /\ IsString(field)
    /\ Len(field[1].v) = 2 + AddressHexLen
    /\ HexMatchesAt(field[1].v, 1, AddressHexLen)

\* z.string().regex(/0x[0-9a-fA-F]{64}/): the match may start anywhere
HashField(field) ==
    /\ IsString(field)
    /\ \E i \in 1..Len(field[1].v) : HexMatchesAt(field[1].v, i, HashHexLen)

\* CASINO_GAME_TYPE of the SDK
CASINO_GAME_TYPE == {"coin-toss", "dice", "roulette", "keno"}

\* z.nativeEnum(CASINO_GAME_TYPE).optional()
IsOptionalGame(field) ==
    field = <<>> \/ (field[1].t = "string" /\ field[1].v \in CASINO_GAME_TYPE)

\* z.object(casinoBetParams)
casinoBetParams(request) ==
    /\ IsString(request.betAmount)
    /\ IsOptionalString(request.token)
    /\ IsOptionalString(request.stopGain)
    /\ IsOptionalString(request.stopLoss)
    /\ request.receiver = <<>> \/ hexAddress(request.receiver)

GetBetSchema(request) == HashField(request.hash)

GetBetsSchema(request) ==
    /\ request.bettor = <<>> \/ hexAddress(request.bettor)
    /\ IsOptionalGame(request.game)

Schemas == {"CommonSchema", "GetBetSchema", "GetBetsSchema"}

\* schema.safeParse(request).success
safeParse(schema, request) ==
    CASE schema = "CommonSchema" -> casinoBetParams(request)
      [] schema = "GetBetSchema" -> GetBetSchema(request)
      [] schema = "GetBetsSchema" -> GetBetsSchema(request)

Repeat(c, n) == [i \in 1..n |-> c]

\* "0x" and n hexadecimal characters
Hex0x(n) ==
    <<"0", "x">> \o [i \in 1..n |-> IF i % 3 = 0 THEN "F" ELSE IF i % 3 = 1 THEN "a" ELSE "7"]

\* the strings the address fields are tried with
AddressStrings ==
    { Hex0x(AddressHexLen), Hex0x(AddressHexLen - 1), Hex0x(AddressHexLen + 1),
      Hex0x(3), <<"z">> \o Hex0x(AddressHexLen), Hex0x(AddressHexLen) \o <<"z">>,
      <<"0", "x">> \o Repeat("g", AddressHexLen), Repeat("a", AddressHexLen + 2), <<>> }

\* the strings the hash field is tried with
HashStrings ==
    { Hex0x(HashHexLen), Hex0x(HashHexLen - 1), Hex0x(HashHexLen + 1),
      Hex0x(2), <<"z">> \o Hex0x(HashHexLen), Hex0x(HashHexLen) \o <<"z">>,
      <<"0", "x">> \o Repeat("g", HashHexLen), Repeat("a", HashHexLen + 2),
      Hex0x(AddressHexLen), <<>> }

\* the bet amounts the common schema is tried with
AmountFields ==
    { <<>>, <<Num(1)>>, <<Str(<<"1", ".", "0">>)>>, <<Str(<<"-", "1", ".", "0">>)>>,
      <<Str(<<"0">>)>>, <<Str(<<"0", ".", "0", "1">>)>>, <<Str(<<"a", "b", "c">>)>> }

\* the requests each schema is tried with
Requests(schema) ==
    CASE schema = "CommonSchema" ->
           [betAmount : AmountFields,
            token : {<<>>, <<Str("ETH")>>, <<Str("BTC")>>},
            stopGain : {<<>>},
            stopLoss : {<<>>, <<Num(0)>>},
            receiver : {<<>>, <<Str(Hex0x(AddressHexLen))>>, <<Str(Hex0x(3))>>}]
      [] schema = "GetBetSchema" ->
           [hash : {<<>>, <<Num(0)>>} \cup {<<Str(h)>> : h \in HashStrings}]
      [] schema = "GetBetsSchema" ->
           [bettor : {<<>>} \cup {<<Str(a)>> : a \in AddressStrings},
            game : {<<>>, <<Str("coin-toss")>>, <<Str("poker")>>}]

SafeParse ==
    /\ pc = "safeParse"
    /\ UNCHANGED <<inputs, locals, poller, calls>>
    /\ Return([success |-> safeParse(action, args)])

(***************************************************************************)
(* getBets: getSubgraphBets, one page of bets from the indexer.            *)
(***************************************************************************)
\* the page size handed to fetchBets
PageSize == 5

FetchBetsErrorMsg(error) == <<"[", error.code, "] Error fetching bets: ", error.message>>

\* the options, the filter and the page size of the fetchBets call
FetchBetsQuery(chainId, graphKey, request) ==
    [chainId |-> chainId, theGraphKey |-> graphKey, formatType |-> <<"PRECISE">>,
     bettor |-> request.bettor, game |-> request.game, limit |-> PageSize]

\* the bets the indexer knows, as it answers them to a query made with opts
IndexedBets(opts) ==
    { SubgraphBet(0, TRUE, <<"0xroll">>, opts),
      SubgraphBet(1, TRUE, <<>>, opts),
      SubgraphBet(MaxBetId, FALSE, <<>>, opts) }

RECURSIVE BetPages(_, _)
BetPages(opts, n) ==
    IF n = 0 THEN {<<>>}
    ELSE LET shorter == BetPages(opts, n - 1)
         IN  shorter \cup {Append(page, b) : page \in shorter, b \in IndexedBets(opts)}

\* what fetchBets may answer: at most a page of bets, or an error
FetchBetsResponses(opts) ==
    [bets : BetPages(opts, IF MaxPage < PageSize THEN MaxPage ELSE PageSize),
     error : {<<>>}]
    \cup [bets : {<<>>}, error : {<<e>> : e \in SubgraphErrors}]

\* the mapping with the records in reverse order
FormatBets_Reversed(bets) ==
    [i \in 1..Len(bets) |-> BetDetails(bets[Len(bets) + 1 - i])]

\* bets.bets.map(bet => ({ ... }))
FormatBets(bets) == [i \in 1..Len(bets) |-> BetDetails(bets[i])]

GetSubgraphBets ==
    /\ pc = "getBets"
    /\ UNCHANGED <<inputs, locals, startTime, now>>
    /\ IF NoChainId
       THEN /\ calls' = Called([NoCalls EXCEPT !.getNetwork = 1])
            /\ Throw(NoChainIdMsg)
            /\ UNCHANGED <<betData, queryOpts>>
       ELSE LET query == FetchBetsQuery(network.chainId[1], theGraphKey, args)
            IN  /\ calls' = Called([NoCalls EXCEPT !.getNetwork = 1, !.fetchBets = 1])
                /\ queryOpts' = <<query>>
                /\ \E response \in FetchBetsResponses(query) :
                     /\ betData' = response
                     /\ IF response.error # <<>>
                        THEN Throw(GetBetWrap(FetchBetsErrorMsg(response.error[1])))
                        ELSE Return(FormatBets(response.bets))

SurfaceInit ==
    /\ Idle
    /\ \/ /\ action = "supportsNetwork"
          /\ network \in Networks
          /\ args = [hash |-> "0xbet"]
          /\ pc = "supportsNetwork"
       \/ /\ action \in Schemas
          /\ network = [chainId |-> <<"8453">>]
          /\ args \in Requests(action)
          /\ pc = "safeParse"
       \/ /\ action = "getBets"
          /\ network \in [chainId : ChainIds]
          /\ args \in [bettor : {<<>>, <<"0xbettor">>}, game : {<<>>, <<"dice">>}]
          /\ pc = "getBets"

SurfaceNext ==
    \/ SupportsNetwork
    \/ SafeParse
    \/ GetSubgraphBets

SurfaceSpec == SurfaceInit /\ [][SurfaceNext]_vars

\* C11: supportsNetwork answers true for every network whose protocolFamily is
\* "evm", with or without a chainId, and false for every other one.
C11_EvmIsSupported ==
    (action = "supportsNetwork" /\ pc = "done") =>
        /\ outcome.status = "returned"
        /\ outcome.value = <<network.protocolFamily = <<"evm">>>>

\* the characters of a string field that is a decimal number
IsDecimalString(field) == IsString(field) /\ ParseUnitsValid(field[1].v)

\* the decimal number is greater than zero
IsPositiveDecimal(field) ==
    /\ IsDecimalString(field)
    /\ field[1].v # <<>>
    /\ field[1].v[1] # "-"
    /\ \E i \in 1..Len(field[1].v) : IsDigit(field[1].v[i]) /\ field[1].v[i] # "0"

\* C12: casinoBetParams rejects a request whose betAmount is a decimal string that
\* is not positive, and accepts one whose betAmount is a positive decimal string
\* (its other fields being valid).
C12_AmountPositivityAtValidation ==
    (action = "CommonSchema" /\ pc = "done" /\ IsDecimalString(args.betAmount)) =>
        IF IsPositiveDecimal(args.betAmount)
        THEN (IsOptionalString(args.stopLoss)
              /\ (args.receiver = <<>> \/ hexAddress(args.receiver)))
                 => outcome.value[1].success
        ELSE ~outcome.value[1].success

\* the whole string is "0x" and exactly n hexadecimal characters
IsExactHex(field, n) ==
    /\ IsString(field)
    /\ Len(field[1].v) = n + 2
    /\ field[1].v[1] = "0"
    /\ field[1].v[2] = "x"
    /\ \A i \in 3..(n + 2) : IsHex(field[1].v[i])

\* C13: an address field is accepted only as "0x" and exactly 40 hexadecimal
\* characters, a transaction-hash field only as "0x" and exactly 64; every other
\* string is rejected.
C13_WholeStringHex ==
    /\ (action = "GetBetsSchema" /\ pc = "done" /\ args.bettor # <<>>) =>
          (outcome.value[1].success => IsExactHex(args.bettor, AddressHexLen))
    /\ (action = "GetBetSchema" /\ pc = "done") =>
          (outcome.value[1].success <=> IsExactHex(args.hash, HashHexLen))


\* C15 as stated: on an indexer error getBets fails with the indexer's error
\* unchanged, nothing added; without one it returns one formatted record per
\* indexer record, in the same order.
C15_ErrorUnchanged ==
    (action = "getBets" /\ calls.fetchBets > 0) =>
        IF betData.error # <<>>
        THEN /\ Thrown
             /\ outcome.error = <<betData.error[1].message>>
        ELSE /\ Returned
             /\ Len(outcome.value[1]) = Len(betData.bets)
             /\ \A i \in 1..Len(betData.bets) :
                  outcome.value[1][i] = BetDetails(betData.bets[i])

\* C15 amended: on an indexer error getBets fails, returning no record, with the
\* error "An error occured while getting the bet: Error: [code] Error fetching
\* bets: message" made of the indexer error's code and message; without one it
\* returns one formatted record per indexer record, in the same order.
C15_ErrorWrapped ==
    (action = "getBets" /\ calls.fetchBets > 0) =>
        IF betData.error # <<>>
        THEN /\ Thrown
             /\ outcome.value = <<>>
             /\ outcome.error =
                  <<"An error occured while getting the bet: ", "Error: ",
                    "[", betData.error[1].code, "] Error fetching bets: ",
                    betData.error[1].message>>
        ELSE /\ Returned
             /\ Len(outcome.value[1]) = Len(betData.bets)
             /\ \A i \in 1..Len(betData.bets) :
                  outcome.value[1][i] = BetDetails(betData.bets[i])

\* C15 witness: two different bets answered and returned.
C15_Witness ==
    /\ action = "getBets"
    /\ Returned
    /\ Len(betData.bets) = 2
    /\ outcome.value[1][1] # outcome.value[1][2]


\* C14: the VRF cost of a submitted transaction is floor(f * 120 / 100) for the
\* fee estimate f the fee API answered, and is never less than f.
C14_VrfCostIsTruncatedMargin ==
    sentTx # <<>> =>
        LET cost == sentTx[1].vrfCost
        IN  /\ 100 * cost <= 120 * vrfEstimate
            /\ 120 * vrfEstimate < 100 * (cost + 1)
            /\ cost >= vrfEstimate

\* C14 witness: a transaction submitted with a cost above the estimate and
\* below the exact 120%.
C14_Witness ==
    /\ sentTx # <<>>
    /\ vrfEstimate = MaxFee
    /\ sentTx[1].vrfCost > vrfEstimate
    /\ 100 * sentTx[1].vrfCost < 120 * vrfEstimate


(***************************************************************************)
(* getBet alone: one lookup of a bet by hash, every awaited call returning. *)
(***************************************************************************)
GetBetInit ==
    /\ Init
    /\ action = "getBet"

GetBetNext ==
    \/ GetBetFirstQuery
    \/ LoopTest
    \/ Sleep
    \/ Poll
    \/ AfterLoop

\* every await of getBet eventually resumes
GetBetSpec == GetBetInit /\ [][GetBetNext]_vars /\ WF_vars(GetBetNext)

\* one sleep lies between any two consecutive queries
OneSleepBetweenQueries ==
    calls.fetchBetByHash > 0 =>
        calls.sleep = IF pc = "poll" THEN calls.fetchBetByHash
                      ELSE calls.fetchBetByHash - 1

\* C16: every getBet invocation eventually returns or throws, issues at most 61
\* indexer queries, and sleeps exactly once between two consecutive queries.
C16_TerminatesWithin61Queries ==
    /\ <>(pc = "done" /\ outcome.status \in {"returned", "thrown"})
    /\ [](calls.fetchBetByHash <= 61 /\ OneSleepBetweenQueries)

\* C16 witness: an invocation that ended after 61 queries and 60 sleeps.
C16_Witness ==
    /\ action = "getBet"
    /\ pc = "done"
    /\ calls.fetchBetByHash = 61
    /\ calls.sleep = 60

\* C17 as stated: every indexer query of one getBet invocation, the first one
\* and every poll, is made with the chain id, the access key and the PRECISE
\* formatting mode, so the returned record is formatted in that mode.
C17_EveryQueryIsPrecise ==
    /\ queryOpts # <<>> =>
          /\ queryOpts[1].chainId = network.chainId[1]
          /\ queryOpts[1].theGraphKey = theGraphKey
          /\ queryOpts[1].formatType = <<"PRECISE">>
    /\ (Returned /\ calls.fetchBetByHash > 0) =>
          outcome.value[1].betAmount[2] = "PRECISE"


(***************************************************************************)
(* coinToss, dice and roulette up to the submission, invoked with requests *)
(* that carry betCount, stopGain, stopLoss and receiver.                   *)
(***************************************************************************)
\* validated requests: the optional fields present or absent
BetRequests ==
    [token : {<<>>, <<"USDC">>},
     betAmount : {<<"1">>},
     hash : {"0xbet"},
     betCount : {<<>>, <<1>>, <<MaxMaxBetCount + 1>>},
     stopGain : {<<>>, << <<"5">> >>},
     stopLoss : {<<>>, << <<"3">> >>},
     receiver : {<<>>, <<"0xwallet">>, <<"0xother">>}]

PlacementInit ==
    /\ Idle
    /\ action \in {"coinToss", "dice", "roulette"}
    /\ network = [chainId |-> <<"8453">>]
    /\ args \in BetRequests
    /\ pc = "checkLiveGame"

PlacementNext ==
    \/ CheckLiveGame
    \/ GetBetToken
    \/ GetBetAmountInWei
    \/ PlaceBetRequirements
    \/ GetChainlinkVrfCost
    \/ SendTransaction

PlacementSpec == PlacementInit /\ [][PlacementNext]_vars

\* the bet the actions build from the amount and the token alone
FixedBet ==
    [betAmount |-> betAmountInWei, betToken |-> selectedToken[1], betCount |-> 1,
     receiver |-> "0xwallet", stopGain |-> 0, stopLoss |-> 0]

====
